---- MODULE Spec2Model ----
(***************************************************************************)
(* Model of src/tools/transfer_asf_to_its_live.py: the transfer of         *)
(* autoRIFT granules from the ASF staging bucket to the ITS_LIVE bucket.   *)
(*                                                                         *)
(*   point_to_prefix       the 10x10 degree directory name of a point      *)
(*   ASFTransfer.run       the chunked dispatch loop                       *)
(*   ASFTransfer.copy_granule / object_exists   the per-job task           *)
(*                                                                         *)
(* A task is split at its blocking collaborator calls (job lookup, dataset *)
(* open, object load, bucket copy): these are the points where the tasks   *)
(* of one dask.compute call interleave.  Every collaborator call may fail. *)
(* After run has returned, main may be called once more with the same      *)
(* arguments.                                                              *)
(***************************************************************************)
EXTENDS Integers, Sequences, FiniteSets, TLC

VARIABLES
    job_ids,          \* run: the list read from the job-ids file
    chunks_to_copy,   \* run: the -n argument
    num_to_copy,      \* run: local
    start,            \* run: local
    num_tasks,        \* run: local
    pc,               \* run: where the main process is
    tasks,            \* position of job_ids (1-based) -> state of its copy_granule task
    store,            \* target bucket: key -> content, or Absent
    log,              \* what logging.info has written, in order
    overtaken,        \* some task finished before an earlier task of its chunk
    faults,           \* how many collaborator calls have failed in this run
    second,           \* this is the second run over the same list
    store0,           \* the target bucket as it was when this run started
    pt,               \* point_to_prefix: its (lat, lon) argument
    dirstring         \* point_to_prefix: its return value

vars == <<job_ids, chunks_to_copy, num_to_copy, start, num_tasks, pc, tasks,
          store, log, overtaken, faults, second, store0, pt,
                   dirstring>>

runVars == <<job_ids, chunks_to_copy, num_to_copy, start, num_tasks, pc, tasks,
             store, log, overtaken, faults, second, store0>>

-----------------------------------------------------------------------------
(* Bounds of the model *)

MaxLen == 3          \* longest job list of the small scenarios
MaxChunk == 2        \* largest chunk size of the small scenarios
MaxFaults == 1       \* most collaborator calls that fail in one run
MaxLat == 90         \* latitudes range over -MaxLat..MaxLat
MaxLon == 180        \* longitudes range over -MaxLon..MaxLon

(* dask.compute(..., num_workers=8) *)
NumWorkers == 8

\* the long list has one job more than the pool has workers
LongLen == NumWorkers + 1

-----------------------------------------------------------------------------
(* point_to_prefix *)

Abs(x) == IF x >= 0 THEN x ELSE -x

\* int(10*np.trunc(np.abs(x/10.0))) for a whole number of degrees x
Bin10(x) == 10 * (Abs(x) \div 10)

RECURSIVE Digits(_)
\* the decimal digits of n >= 0, most significant first
Digits(n) == IF n < 10 THEN <<n>> ELSE Append(Digits(n \div 10), n % 10)

RECURSIVE ZeroPad(_, _)
\* f'{n:0wd}': zeros on the left up to width w, never truncated
ZeroPad(ds, w) == IF Len(ds) >= w THEN ds ELSE ZeroPad(<<0>> \o ds, w)

NShemi(lat) == IF lat >= 0 THEN "N" ELSE "S"
EWhemi(lon) == IF lon >= 0 THEN "E" ELSE "W"

OutlatNoPole(lat) == Bin10(lat)
Outlat(lat) == IF Bin10(lat) = 90 THEN 80 ELSE Bin10(lat)
Outlon(lon) == IF Bin10(lon) >= 180 THEN 170 ELSE Bin10(lon)

\* os.path.join(dir_path, f'{NShemi_str}{outlat:02d}{EWhemi_str}{outlon:03d}')
\* as the sequence of its path characters
point_to_prefix(dir_path, lat, lon) ==
    <<dir_path, "/", NShemi(lat)>> \o ZeroPad(Digits(Outlat(lat)), 2)
        \o <<EWhemi(lon)>> \o ZeroPad(Digits(Outlon(lon)), 3)

-----------------------------------------------------------------------------
(* The HyP3 jobs and the buckets *)

TargetDir == "velocity_image_pair"
Absent == "absent"
OldContent == "old"

File(filename, key, lat, lon) ==
    [filename |-> filename, bucket |-> "hyp3", key |-> key, lat |-> lat, lon |-> lon]

\* sdk.HyP3.get_job_by_id: what the service answers for each id
Jobs ==
    [ ja |-> [status |-> "succeeded",
              files |-> <<File("g1.nc", "ka/g1.nc", 78, -124),
                          File("g1.png", "ka/g1.png", 78, -124)>>],
      jb |-> [status |-> "succeeded",
              files |-> <<File("g1.nc", "kb/g1.nc", 75, -121)>>],
      jc |-> [status |-> "succeeded",
              files |-> <<File("g2.nc", "kc/g2.nc", -90, 180)>>],
      jr |-> [status |-> "running", files |-> <<>>],
      jf |-> [status |-> "failed", files |-> <<>>] ]

JobIds == {"ja", "jb", "jr", "jf"}

\* source = {'Bucket': job.files[0]['s3']['bucket'], 'Key': job.files[0]['s3']['key']}
SourceLastFile(id) ==
    [Bucket |-> Jobs[id].files[Len(Jobs[id].files)].bucket,
     Key |-> Jobs[id].files[Len(Jobs[id].files)].key]
Source(id) == [Bucket |-> Jobs[id].files[1].bucket, Key |-> Jobs[id].files[1].key]

Succeeded == {id \in DOMAIN Jobs : Jobs[id].status = "succeeded"}

\* target_prefix = point_to_prefix(self.target_bucket_dir, lat, lon) and
\* target_key = f'{target_prefix}/{job.files[0]["filename"]}', for each job
\* that has files
TargetKeys ==
    [id \in Succeeded |->
        point_to_prefix(TargetDir, Jobs[id].files[1].lat, Jobs[id].files[1].lon)
            \o <<"/", Jobs[id].files[1].filename>>]

TargetKey(id) == TargetKeys[id]
Keys == {TargetKey(id) : id \in Succeeded}

-----------------------------------------------------------------------------
(* Traces and log lines *)

NoPoint == <<>>
NoPath == <<>>

Msg(kind, id, at, src, dst) ==
    [kind |-> kind, job |-> id, at |-> at, src |-> src, dst |-> dst]

\* f'Processing {job}'
Processing(id) == Msg("processing", id, NoPoint, NoPath, NoPath)
\* f'WARNING: Job is still running! Skipping {job}'
StillRunning(id) == Msg("running", id, NoPoint, NoPath, NoPath)
\* f'Image center (lat, lon): ({lat}, {lon})'
ImageCenter(id) ==
    Msg("center", id, <<Jobs[id].files[1].lat, Jobs[id].files[1].lon>>, NoPath, NoPath)
\* f'WARNING: {bucket.name}/{target_key} already exists! skipping {job}'
AlreadyExists(id) == Msg("exists", id, NoPoint, NoPath, TargetKey(id))
\* f'Copying {source["Bucket"]}/{source["Key"]} to {bucket.name}/{target_key}'
Copying(id) ==
    Msg("copying", id, NoPoint, <<Source(id).Bucket, Source(id).Key>>, TargetKey(id))
\* f'WARNING: {job} failed!'
JobFailed(id) == Msg("failed", id, NoPoint, NoPath, NoPath)

LogLine(kind, a, b, msgs) == [kind |-> kind, a |-> a, b |-> b, msgs |-> msgs]
\* logging.info(f"{num_to_copy} granules to copy...")
ToCopyLine(n) == LogLine("to_copy", n, 0, <<>>)
\* logging.info(f"Starting tasks {start}:{start+num_tasks}")
StartingLine(a, b) == LogLine("starting", a, b, <<>>)
\* logging.info("-->".join(each_result))
TraceLine(msgs) == LogLine("trace", 0, 0, msgs)

-----------------------------------------------------------------------------
(* The tasks of one dask.compute call *)

Task(tpc, msgs, ops, load, onto) ==
    [pc |-> tpc, msgs |-> msgs, ops |-> ops, load |-> load, onto_existing |-> onto]

NotCreated == Task("none", <<>>, <<>>, "none", FALSE)
Pending == Task("pending", <<>>, <<>>, "none", FALSE)

Positions == 1..Len(job_ids)
ExecutingPcs == {"get_job", "open", "load", "copy"}
FinishedPcs == {"done", "raised"}

Min(a, b) == IF a < b THEN a ELSE b

\* s[a:b] of Python for 0 <= a: the 1-based positions the slice holds
SlicePositions(s, a, b) ==
    IF b >= 0 THEN (a + 1)..Min(b, Len(s)) ELSE (a + 1)..(Len(s) + b)

\* job_ids[start:start+num_tasks]: the positions of the chunk being computed
Chunk == SlicePositions(job_ids, start, start + num_tasks)

Executing == {p \in Positions : tasks[p].pc \in ExecutingPcs}

\* a worker of the pool of dask.compute(..., num_workers=8) is idle
WorkerFreeNoLimit == TRUE
WorkerFree == Cardinality(Executing) < NumWorkers

\* num_tasks = chunks_to_copy if num_to_copy > chunks_to_copy else num_to_copy
NumTasksNoMin(remaining, chunk) == chunk
NumTasks(remaining, chunk) == IF remaining > chunk THEN chunk ELSE remaining

\* dask.compute returns when every task of the list has returned
ChunkCompleteAny == \E p \in Chunk : tasks[p].pc = "done"
ChunkCompleteFinished == \A p \in Chunk : tasks[p].pc \in FinishedPcs
ChunkComplete == \A p \in Chunk : tasks[p].pc = "done"

\* results[0]: the traces in the order of the task list
ResultsReversed == [i \in 1..num_tasks |-> tasks[start + num_tasks + 1 - i].msgs]
Results == [i \in 1..num_tasks |-> tasks[start + i].msgs]

\* object_exists: True when load() returns, False when it raises ClientError
object_exists_inverted(load) == load # "ok"
object_exists(load) == load = "ok"

\* what bucket.Object(key).load() can do for a key: return, raise ClientError
\* (404 for a missing object, 403 and the like for any object), or raise
\* another error (no connection)
LoadOutcomes(key) ==
    (IF store[key] = Absent THEN {"404"} ELSE {"ok"})
        \union (IF faults < MaxFaults /\ ~second THEN {"client_error", "error"} ELSE {})

\* what a call of a collaborator can do: return (TRUE) or raise (FALSE)
CallOutcomes == IF faults < MaxFaults /\ ~second THEN BOOLEAN ELSE {TRUE}

\* the task at position p finishes while an earlier task of its chunk has not
Overtakes(p) == \E q \in Chunk : q < p /\ tasks[q].pc \notin FinishedPcs

SetTask(p, t) == [tasks EXCEPT ![p] = t]

\* line 136, bucket.copy(source, target_key): the object at the key is the
\* source object, whatever was there; no other key is touched
StoreAfterCopyKeepFirst(id) ==
    IF store[TargetKey(id)] # Absent THEN store
    ELSE [store EXCEPT ![TargetKey(id)] = Source(id).Key]
StoreAfterCopyOnlyTarget(id) ==
    [k \in Keys |-> IF k = TargetKey(id) THEN Source(id).Key ELSE Absent]
StoreAfterCopyNothing(id) == store
StoreAfterCopy(id) == [store EXCEPT ![TargetKey(id)] = Source(id).Key]

\* line 72: while num_to_copy > 0
LoopTestFullChunk(n) == n >= chunks_to_copy
LoopTest(n) == n > 0

\* line 91: start += num_tasks
AdvanceOne(s, n) == s + 1
Advance(s, n) == s + n

-----------------------------------------------------------------------------
(* ASFTransfer.run *)

\* lines 72-77: the loop test, the chunk size, the task list and the assertion
FormChunk ==
    /\ pc = "loop"
    /\ LoopTest(num_to_copy)
    /\ num_tasks' = NumTasks(num_to_copy, chunks_to_copy)
    /\ LET created == SlicePositions(job_ids, start, start + num_tasks')
       IN  /\ tasks' = [p \in Positions |-> IF p \in created THEN Pending ELSE tasks[p]]
           /\ pc' = IF Cardinality(created) = num_tasks' THEN "compute"
                    ELSE "assert_failed"
    /\ log' = Append(log, StartingLine(start, start + num_tasks'))
    /\ UNCHANGED <<job_ids, chunks_to_copy, num_to_copy, start, store, overtaken,
                   faults, second, store0, pt,
                   dirstring>>

\* lines 87-91: dask.compute has returned; log the traces, advance the window
LogResults ==
    /\ pc = "compute"
    /\ ChunkComplete
    /\ log' = log \o [i \in 1..num_tasks |-> TraceLine(Results[i])]
    /\ num_to_copy' = num_to_copy - num_tasks
    /\ start' = Advance(start, num_tasks)
    /\ pc' = "loop"
    /\ UNCHANGED <<job_ids, chunks_to_copy, num_tasks, tasks, store, overtaken,
                   faults, second, store0, pt,
                   dirstring>>

\* lines 82-84: dask.compute re-raises the exception of a task; nothing in run
\* catches it
Abort ==
    /\ pc = "compute"
    /\ \E p \in Chunk : tasks[p].pc = "raised"
    /\ pc' = "aborted"
    /\ UNCHANGED <<job_ids, chunks_to_copy, num_to_copy, start, num_tasks, tasks,
                   store, log, overtaken, faults, second, store0, pt,
                   dirstring>>

\* line 72: the loop test fails, run returns
Return ==
    /\ pc = "loop"
    /\ ~LoopTest(num_to_copy)
    /\ pc' = "done"
    /\ UNCHANGED <<job_ids, chunks_to_copy, num_to_copy, start, num_tasks, tasks,
                   store, log, overtaken, faults, second, store0, pt,
                   dirstring>>

-----------------------------------------------------------------------------
(* ASFTransfer.copy_granule, one task per position of the chunk *)

\* the worker processes run tasks while dask.compute is in progress; when it
\* raises, the pool is shut down and the process ends
Running(p, at) ==
    /\ pc = "compute"
    /\ tasks[p].pc = at

Finish(p, t) ==
    /\ tasks' = SetTask(p, t)
    /\ overtaken' = (overtaken \/ Overtakes(p))

\* the return of copy_granule after the status test of lines 111-115:
\* the next step of a task that holds the job, or its return
AfterLookupAlwaysOpen(id, msgs) == Task("open", msgs, <<>>, "none", FALSE)
AfterLookupElseOpen(id, msgs) ==
    IF Jobs[id].status = "running"
    THEN Task("done", Append(msgs, StillRunning(id)), <<>>, "none", FALSE)
    ELSE Task("open", msgs, <<>>, "none", FALSE)
AfterLookupNoReturn(id, msgs) ==
    IF Jobs[id].status = "succeeded"
    THEN Task("open", msgs, <<>>, "none", FALSE)
    ELSE Task("done",
              Append(IF Jobs[id].status = "running" THEN Append(msgs, StillRunning(id))
                     ELSE msgs,
                     JobFailed(id)),
              <<>>, "none", FALSE)
AfterLookup(id, msgs) ==
    IF Jobs[id].status = "running"
    THEN Task("done", Append(msgs, StillRunning(id)), <<>>, "none", FALSE)
    ELSE IF Jobs[id].status = "succeeded"
    THEN Task("open", msgs, <<>>, "none", FALSE)
    ELSE Task("done", Append(msgs, JobFailed(id)), <<>>, "none", FALSE)

\* the branch of lines 131-136 on the result of object_exists
AfterExistsAlwaysCopy(t, id, load) ==
    Task("copy", t.msgs, Append(t.ops, "exists"), load, FALSE)
AfterExists(t, id, load) ==
    IF object_exists(load)
    THEN Task("done", Append(t.msgs, AlreadyExists(id)), Append(t.ops, "exists"),
              load, FALSE)
    ELSE Task("copy", t.msgs, Append(t.ops, "exists"), load, FALSE)

\* a worker of the pool takes the next task of the list; the scheduler hands
\* out tasks in the order of the list, and none after the failure of a task has
\* reached it
Dispatch(p) ==
    /\ pc = "compute"
    /\ tasks[p].pc = "pending"
    /\ \A q \in Chunk : (q < p => tasks[q].pc # "pending") /\ tasks[q].pc # "raised"
    /\ WorkerFree
    /\ tasks' = SetTask(p, [tasks[p] EXCEPT !.pc = "get_job"])
    /\ UNCHANGED <<job_ids, chunks_to_copy, num_to_copy, start, num_tasks, pc,
                   store, log, overtaken, faults, second, store0, pt,
                   dirstring>>

\* lines 108-115 and 139-143: the job lookup, the first message, the status test
GetJob(p) ==
    /\ Running(p, "get_job")
    /\ \E ok \in CallOutcomes :
          /\ faults' = IF ok THEN faults ELSE faults + 1
          /\ IF ok
             THEN LET t == AfterLookup(job_ids[p], <<Processing(job_ids[p])>>)
                  IN  IF t.pc = "done" THEN Finish(p, t)
                      ELSE tasks' = SetTask(p, t) /\ UNCHANGED overtaken
             ELSE Finish(p, [tasks[p] EXCEPT !.pc = "raised"])
    /\ UNCHANGED <<job_ids, chunks_to_copy, num_to_copy, start, num_tasks, pc,
                   store, log, second, store0, pt,
                   dirstring>>

\* lines 117-129: open the first file, read the centre, compute source and target
OpenDataset(p) ==
    /\ Running(p, "open")
    /\ \E ok \in CallOutcomes :
          /\ faults' = IF ok THEN faults ELSE faults + 1
          /\ IF ok
             THEN /\ tasks' = SetTask(p, [tasks[p] EXCEPT
                                 !.pc = "load",
                                 !.msgs = Append(@, ImageCenter(job_ids[p])),
                                 !.ops = Append(@, "open")])
                  /\ UNCHANGED overtaken
             ELSE Finish(p, [tasks[p] EXCEPT !.pc = "raised",
                                             !.ops = Append(@, "open")])
    /\ UNCHANGED <<job_ids, chunks_to_copy, num_to_copy, start, num_tasks, pc,
                   store, log, second, store0, pt,
                   dirstring>>

\* lines 131-132 and 94-101: object_exists and the branch on its result
ObjectExists(p) ==
    /\ Running(p, "load")
    /\ \E load \in LoadOutcomes(TargetKey(job_ids[p])) :
          /\ faults' = IF load \in {"ok", "404"} THEN faults ELSE faults + 1
          /\ IF load = "error"
             THEN Finish(p, [tasks[p] EXCEPT !.pc = "raised", !.load = load,
                                             !.ops = Append(@, "exists")])
             ELSE LET t == AfterExists(tasks[p], job_ids[p], load)
                  IN  IF t.pc = "done" THEN Finish(p, t)
                      ELSE tasks' = SetTask(p, t) /\ UNCHANGED overtaken
    /\ UNCHANGED <<job_ids, chunks_to_copy, num_to_copy, start, num_tasks, pc,
                   store, log, second, store0, pt,
                   dirstring>>

\* lines 135-136: bucket.copy(source, target_key) and its message
Copy(p) ==
    /\ Running(p, "copy")
    /\ LET id == job_ids[p]
           onto == store[TargetKey(id)] # Absent
       IN \E ok \in CallOutcomes :
            /\ faults' = IF ok THEN faults ELSE faults + 1
            /\ IF ok
               THEN /\ store' = StoreAfterCopy(id)
                    /\ Finish(p, [tasks[p] EXCEPT !.pc = "done",
                                                  !.msgs = Append(@, Copying(id)),
                                                  !.ops = Append(@, "copy"),
                                                  !.onto_existing = onto])
               ELSE /\ UNCHANGED store
                    /\ Finish(p, [tasks[p] EXCEPT !.pc = "raised",
                                                  !.ops = Append(@, "copy"),
                                                  !.onto_existing = onto])
    /\ UNCHANGED <<job_ids, chunks_to_copy, num_to_copy, start, num_tasks, pc,
                   log, second, store0, pt,
                   dirstring>>

-----------------------------------------------------------------------------
(* The runs *)

RECURSIVE SeqsUpTo(_, _)
\* the sequences over S of length at most n
SeqsUpTo(S, n) ==
    IF n = 0 THEN {<<>>}
    ELSE LET shorter == SeqsUpTo(S, n - 1)
         IN  shorter \union {Append(s, x) : s \in shorter, x \in S}

\* one list with more jobs than the pool has workers
LongList == [i \in 1..LongLen |-> "jr"]

JobLists == SeqsUpTo(JobIds, MaxLen) \union {LongList}
ChunkSizes == 1..MaxChunk \union {LongLen}

\* the target bucket before the run: it holds the granule of jc, a job of an
\* earlier list, and may hold an object at the target key of ja
Stores == {[k \in Keys |-> IF k \in old THEN OldContent ELSE Absent] :
              old \in {{TargetKey("jc")}, {TargetKey("ja"), TargetKey("jc")}}}

Idle == pt = NoPoint /\ dirstring = NoPath

\* lines 66-70
Init ==
    /\ job_ids \in JobLists
    /\ chunks_to_copy \in ChunkSizes
    /\ store \in Stores
    /\ job_ids = LongList => (chunks_to_copy = LongLen /\ store[TargetKey("ja")] = Absent)
    /\ job_ids # LongList => chunks_to_copy <= MaxChunk
    /\ num_to_copy = Len(job_ids)
    /\ start = 0
    /\ num_tasks = 0
    /\ pc = "loop"
    /\ tasks = [p \in 1..Len(job_ids) |-> NotCreated]
    /\ log = <<ToCopyLine(Len(job_ids))>>
    /\ overtaken = FALSE
    /\ faults = 0
    /\ second = FALSE
    /\ store0 = store
    /\ Idle

\* main, called again with the same arguments after run has returned: the job
\* list, the jobs and the target bucket are as the first run left them
Rerun ==
    /\ pc = "done"
    /\ ~second
    /\ second' = TRUE
    /\ store0' = store
    /\ num_to_copy' = Len(job_ids)
    /\ start' = 0
    /\ num_tasks' = 0
    /\ pc' = "loop"
    /\ tasks' = [p \in Positions |-> NotCreated]
    /\ log' = <<ToCopyLine(Len(job_ids))>>
    /\ overtaken' = FALSE
    /\ faults' = 0
    /\ UNCHANGED <<job_ids, chunks_to_copy, store, pt, dirstring>>

Next ==
    \/ FormChunk
    \/ LogResults
    \/ Abort
    \/ Return
    \/ Rerun
    \/ \E p \in Positions : Dispatch(p)
    \/ \E p \in Positions : GetJob(p)
    \/ \E p \in Positions : OpenDataset(p)
    \/ \E p \in Positions : ObjectExists(p)
    \/ \E p \in Positions : Copy(p)

Spec == Init /\ [][Next]_vars

\* a step of run or of one of its tasks.  The main process and the workers of
\* the pool are scheduled by the operating system and every collaborator call
\* returns or raises: a step that stays possible is taken.  Calling main again
\* is up to the operator.
Progress ==
    \/ FormChunk
    \/ LogResults
    \/ Abort
    \/ Return
    \/ \E p \in Positions : Dispatch(p)
    \/ \E p \in Positions : GetJob(p)
    \/ \E p \in Positions : OpenDataset(p)
    \/ \E p \in Positions : ObjectExists(p)
    \/ \E p \in Positions : Copy(p)

\* one call of main, for the lists of a succeeded, a running and a failed job,
\* in a bucket that does not hold the granule of the succeeded job yet
InitFair ==
    /\ Init
    /\ store[TargetKey("ja")] = Absent
    /\ \A i \in 1..Len(job_ids) : job_ids[i] # "jb"

SpecFair == InitFair /\ [][Progress]_vars /\ WF_vars(Progress)

-----------------------------------------------------------------------------
(* point_to_prefix on its own: every point of the grid, resolved once *)

InitPrefix ==
    /\ pt \in (-MaxLat..MaxLat) \X (-MaxLon..MaxLon)
    /\ dirstring = NoPath
    /\ job_ids = <<>>
    /\ chunks_to_copy = 1
    /\ store = [k \in Keys |-> Absent]
    /\ num_to_copy = 0
    /\ start = 0
    /\ num_tasks = 0
    /\ pc = "done"
    /\ tasks = <<>>
    /\ log = <<>>
    /\ overtaken = FALSE
    /\ faults = 0
    /\ second = FALSE
    /\ store0 = store

\* lines 32-50
Resolve ==
    /\ pt # NoPoint
    /\ dirstring = NoPath
    /\ dirstring' = point_to_prefix(TargetDir, pt[1], pt[2])
    /\ UNCHANGED <<runVars, pt>>

NextPrefix == Resolve

SpecPrefix == InitPrefix /\ [][NextPrefix]_vars

-----------------------------------------------------------------------------
(* What the properties read *)

\* the trace lines of the log, in the order they were written
Traces == SelectSeq(log, LAMBDA l : l.kind = "trace")
\* the "Starting tasks a:b" lines of the log
Starts == SelectSeq(log, LAMBDA l : l.kind = "starting")

\* the trace of the task at position p has been logged
Logged(p) == p <= Len(Traces) /\ Traces[p].msgs = tasks[p].msgs

\* the chunk (0-based) a position of the list belongs to
ChunkOf(p) == (p - 1) \div chunks_to_copy

Status(p) == Jobs[job_ids[p]].status
Kinds(p) == {tasks[p].msgs[i].kind : i \in 1..Len(tasks[p].msgs)}
OpsOf(p) == {tasks[p].ops[i] : i \in 1..Len(tasks[p].ops)}
Copied(p) == tasks[p].pc = "done" /\ "copying" \in Kinds(p)
Skipped(p) == tasks[p].pc = "done" /\ "exists" \in Kinds(p)

-----------------------------------------------------------------------------
(* C1 *)

\* C1 as stated, in the runs where no collaborator call fails: no task issues
\* its copy onto a target key at which an object exists.
C1_NeverOntoExisting ==
    \A p \in Positions : faults = 0 => ~tasks[p].onto_existing

\* C1, amended: a task issues a copy only after its own object_exists call for
\* the target key returned False, and never after it returned True; a copy
\* lands on an existing object only when another task of the same chunk copied
\* to the same key after that check, or when the check failed with a
\* ClientError other than 404.
C1_CopyOnlyAfterAbsentCheck ==
    \A p \in Positions :
        /\ (tasks[p].pc = "copy" \/ "copy" \in OpsOf(p))
              => tasks[p].load \in {"404", "client_error"}
        /\ tasks[p].load = "ok" => (tasks[p].pc = "done" /\ "copy" \notin OpsOf(p))
        /\ tasks[p].onto_existing
              => \/ tasks[p].load = "client_error"
                 \/ \E q \in Positions \ {p} :
                       /\ ChunkOf(q) = ChunkOf(p)
                       /\ Status(q) = "succeeded"
                       /\ TargetKey(job_ids[q]) = TargetKey(job_ids[p])
                       /\ Copied(q)

\* a task has found its key taken and skipped, another has copied onto a free key
C1_Witness ==
    /\ \E p \in Positions : Skipped(p) /\ store[TargetKey(job_ids[p])] # Absent
    /\ \E p \in Positions : Copied(p) /\ ~tasks[p].onto_existing

-----------------------------------------------------------------------------
(* C2 *)

\* C2: copy_granule run twice in sequence for one succeeded job (two positions
\* of the list in different chunks, no collaborator failing): when the first
\* run finds the key absent it copies, the second run then skips without
\* issuing a copy, and with nothing running in between (chunk size 1, adjacent
\* positions) the object at the target key is the same after the first and
\* after the second run.
C2_CopiedThenSkipped ==
    faults = 0 =>
        \A p \in Positions :
            Status(p) = "succeeded" =>
                /\ (tasks[p].pc = "done" /\ tasks[p].load = "404") => Copied(p)
                /\ \A q \in Positions :
                      (/\ p < q
                       /\ job_ids[p] = job_ids[q]
                       /\ ChunkOf(p) < ChunkOf(q)
                       /\ Copied(p))
                      => /\ tasks[q].pc = "done"
                            => (Skipped(q) /\ "copy" \notin OpsOf(q) /\ ~Copied(q))
                         /\ (chunks_to_copy = 1 /\ q = p + 1)
                            => store[TargetKey(job_ids[p])] = Source(job_ids[p]).Key

\* both runs are over: the first copied, the second skipped
C2_Witness ==
    /\ Len(job_ids) >= 2
    /\ job_ids[1] = job_ids[2]
    /\ chunks_to_copy = 1
    /\ faults = 0
    /\ Copied(1)
    /\ Skipped(2)

-----------------------------------------------------------------------------
(* C3 *)

\* C3 as stated: when run has ended, by returning or by the exception of a
\* task, the trace of every task of the chunk that returned has been logged.
C3_SiblingTracesLogged ==
    pc \in {"done", "aborted"}
        => \A p \in Positions : tasks[p].pc = "done" => Logged(p)

-----------------------------------------------------------------------------
(* C4 *)

CeilDiv(a, b) == (a + b - 1) \div b

\* C4: the assertion len(tasks) == num_tasks never fails; the chunks formed are
\* contiguous windows of the list, the i-th starting at (i-1)*C; when run
\* returns there are ceil(L/C) of them, all of length C but the last, which has
\* length L mod C (or C when C divides L), every position lies in exactly one
\* of them and its task has run for the job id at that position.
C4_Chunking ==
    LET L == Len(job_ids)
        C == chunks_to_copy
        st == Starts
        n == Len(st)
    IN  /\ pc # "assert_failed"
        /\ \A i \in 1..n :
              /\ st[i].a = (i - 1) * C
              /\ st[i].b > st[i].a
              /\ st[i].b <= L
              /\ i < n => st[i].b - st[i].a = C
        /\ pc = "compute" => Cardinality(Chunk) = num_tasks
        /\ pc = "done" =>
              /\ n = CeilDiv(L, C)
              /\ n > 0 => st[n].b - st[n].a = (IF L % C = 0 THEN C ELSE L % C)
              /\ \A p \in Positions :
                    /\ Cardinality({i \in 1..n : st[i].a < p /\ p <= st[i].b}) = 1
                    /\ tasks[p].pc = "done"
                    /\ tasks[p].msgs[1] = Processing(job_ids[p])
              /\ Len(Traces) = L

\* run has returned from a list of three jobs in chunks of two: 2 + 1
C4_Witness ==
    /\ pc = "done"
    /\ Len(job_ids) = 3
    /\ chunks_to_copy = 2
    /\ Len(Starts) = 2

-----------------------------------------------------------------------------
(* C5 *)

\* C5: the task of a running job never opens the source, never checks the
\* target and never copies, and returns the trace "Processing", "still
\* running".
C5_RunningNoStoreOps ==
    \A p \in Positions :
        Status(p) = "running" =>
            /\ tasks[p].ops = <<>>
            /\ tasks[p].pc \in {"none", "pending", "get_job", "done", "raised"}
            /\ tasks[p].pc = "done" =>
                  tasks[p].msgs = <<Processing(job_ids[p]), StillRunning(job_ids[p])>>

\* the task of a running job has returned
C5_Witness ==
    \E p \in Positions : Status(p) = "running" /\ tasks[p].pc = "done"

-----------------------------------------------------------------------------
(* C6 *)

\* C6 as stated: copy_granule never raises, whatever its collaborators do: no
\* task ends by an exception.
C6_NeverRaises ==
    \A p \in Positions : tasks[p].pc # "raised"

-----------------------------------------------------------------------------
(* C7 *)

\* C7: when a task of a chunk has been created, every task of every earlier
\* chunk has returned and its trace has been logged.
C7_Barrier ==
    LET tr == Traces
    IN  \A q \in Positions :
            (tasks[q].pc # "none" /\ ChunkOf(q) > 0) =>
                \A p \in Positions :
                    ChunkOf(p) < ChunkOf(q) =>
                        /\ tasks[p].pc = "done"
                        /\ p <= Len(tr)
                        /\ tr[p].msgs = tasks[p].msgs

\* a task of the second chunk is looking up its job
C7_Witness ==
    \E q \in Positions : ChunkOf(q) >= 1 /\ tasks[q].pc = "get_job"

-----------------------------------------------------------------------------
(* C8 *)

\* C8: the tasks executing at any moment are at most as many as the workers
\* of the pool (8), at most as many as the chunk size, and all of the chunk
\* that run is computing.
C8_BoundedConcurrency ==
    LET executing == Executing
    IN  /\ Cardinality(executing) <= NumWorkers
        /\ Cardinality(executing) <= chunks_to_copy
        /\ executing \subseteq Chunk

\* all eight workers are busy and a task of the chunk waits for one
C8_Witness ==
    /\ Cardinality(Executing) = NumWorkers
    /\ \E p \in Chunk : tasks[p].pc = "pending"

-----------------------------------------------------------------------------
(* C9 *)

\* C9: for whole degrees lat in [-90,90] and lon in [-180,180] the directory
\* name is the base directory, N iff lat >= 0 (else S), the two digits of
\* min(10*(|lat| div 10), 80), E iff lon >= 0 (else W) and the three digits of
\* min(10*(|lon| div 10), 170); the poles give 80 and the dateline gives 170.
C9_Prefix ==
    dirstring # NoPath =>
        LET lat == pt[1]
            lon == pt[2]
            latbin == Min(10 * (Abs(lat) \div 10), 80)
            lonbin == Min(10 * (Abs(lon) \div 10), 170)
        IN  /\ Len(dirstring) = 9
            /\ dirstring[1] = TargetDir
            /\ dirstring[2] = "/"
            /\ dirstring[3] = "N" <=> lat >= 0
            /\ dirstring[3] = "S" <=> lat < 0
            /\ dirstring[6] = "E" <=> lon >= 0
            /\ dirstring[6] = "W" <=> lon < 0
            /\ 10 * dirstring[4] + dirstring[5] = latbin
            /\ 100 * dirstring[7] + 10 * dirstring[8] + dirstring[9] = lonbin
            /\ \A i \in {4, 5, 7, 8, 9} : dirstring[i] \in 0..9
            /\ latbin \in {10 * k : k \in 0..8}
            /\ lonbin \in {10 * k : k \in 0..17}
            /\ Abs(lat) >= 90 => latbin = 80
            /\ Abs(lon) >= 180 => lonbin = 170

\* the south pole on the dateline has been resolved: S80E170
C9_Witness ==
    /\ pt = <<-90, 180>>
    /\ dirstring = <<TargetDir, "/", "S", 8, 0, "E", 1, 7, 0>>

-----------------------------------------------------------------------------
(* C10 *)

\* C10: the i-th trace line of the log is the trace of the task at position i
\* of the job-id list, for the job id at that position, whatever order the
\* tasks of a chunk finished in; when run returns the log holds one trace line
\* per position of the list.
C10_LogInListOrder ==
    LET tr == Traces
    IN  /\ \A i \in 1..Len(tr) :
              /\ i <= Len(job_ids)
              /\ tr[i].msgs = tasks[i].msgs
              /\ Len(tr[i].msgs) >= 2
              /\ tr[i].msgs[1] = Processing(job_ids[i])
        /\ pc = "done" => Len(tr) = Len(job_ids)

\* run has returned; a task finished before an earlier task of its chunk, the
\* two for different jobs
C10_Witness ==
    /\ pc = "done"
    /\ overtaken
    /\ Len(Traces) = Len(job_ids)
    /\ \E i \in 1..(Len(job_ids) - 1) :
          ChunkOf(i) = ChunkOf(i + 1) /\ job_ids[i] # job_ids[i + 1]

-----------------------------------------------------------------------------
(* C11 *)

-----------------------------------------------------------------------------
(* C12 *)

Present(s) == {k \in Keys : s[k] # Absent}

\* C12: when run has returned, the keys present in the target bucket are the
\* keys that were present when the run started together with the target keys of
\* the succeeded jobs of the list: a set that depends on the list, the jobs and
\* the initial bucket only, so it is the same for every chunk size and every
\* interleaving of the tasks.
C12_FinalKeysIndependentOfChunking ==
    pc = "done" =>
        Present(store) = Present(store0) \union
                         {TargetKey(job_ids[p]) : p \in {q \in Positions : Status(q) = "succeeded"}}

\* a run of more than one chunk has returned, with tasks of a chunk finishing
\* out of order, a granule copied and a key of the initial bucket left alone
C12_Witness ==
    /\ pc = "done"
    /\ ~second
    /\ faults = 0
    /\ overtaken
    /\ Len(job_ids) > chunks_to_copy
    /\ Present(store0) # {}
    /\ Present(store) # Present(store0)

-----------------------------------------------------------------------------
(* C13 *)

\* the tasks of this run that copied to the key k
Writers(k) ==
    {p \in Positions : Status(p) = "succeeded" /\ TargetKey(job_ids[p]) = k /\ Copied(p)}

\* C13: the check and the copy of a task are separate steps and nothing ties
\* them together, so a copy overwrites whatever is at the key: the object at a
\* key that tasks of this run copied to is the source of one of them, and when
\* there was an object before that copy (of an earlier writer, or of the initial
\* bucket) it is the source of a task that copied onto an existing object.  The
\* interleaving in which two tasks of one chunk both find the key absent and
\* both copy is C13_Witness.
C13_LastWriterWins ==
    \A k \in Keys :
        LET W == Writers(k)
        IN  W # {} =>
              \E p \in W :
                 /\ store[k] = Source(job_ids[p]).Key
                 /\ (Cardinality(W) >= 2 \/ store0[k] # Absent) => tasks[p].onto_existing

\* no call failed; two tasks of one chunk with different sources and one target
\* key both got 404 from load() and both copied; the first copied to the absent
\* key, the second onto the first's object, and the second's object is there
C13_Witness ==
    /\ faults = 0
    /\ \E p, q \in Positions :
          /\ p # q
          /\ ChunkOf(p) = ChunkOf(q)
          /\ Status(p) = "succeeded" /\ Status(q) = "succeeded"
          /\ TargetKey(job_ids[p]) = TargetKey(job_ids[q])
          /\ Source(job_ids[p]) # Source(job_ids[q])
          /\ tasks[p].load = "404" /\ tasks[q].load = "404"
          /\ Copied(p) /\ Copied(q)
          /\ ~tasks[p].onto_existing
          /\ tasks[q].onto_existing
          /\ store[TargetKey(job_ids[q])] = Source(job_ids[q]).Key

-----------------------------------------------------------------------------
(* C14 *)

\* C14 as stated: a failure of the existence check (load() raising anything but
\* "404, no such object") propagates out of the task: the task has raised, and
\* it has not gone on to the copy.
C14_CheckFailurePropagates ==
    \A p \in Positions :
        tasks[p].load \in {"client_error", "error"}
            => /\ tasks[p].pc = "raised"
               /\ "copy" \notin OpsOf(p)

-----------------------------------------------------------------------------
(* C15 *)

\* C15: the task of a failed job never opens a source, never checks the target
\* and never copies; once the lookup has answered it returns, without raising
\* and without another attempt, the trace "Processing", "failed".
C15_FailedNoStoreOps ==
    \A p \in Positions :
        Status(p) = "failed" =>
            /\ tasks[p].ops = <<>>
            /\ tasks[p].pc \in {"none", "pending", "get_job", "done", "raised"}
            /\ tasks[p].pc = "raised" => tasks[p].msgs = <<>>
            /\ tasks[p].pc = "done" =>
                  tasks[p].msgs = <<Processing(job_ids[p]), JobFailed(job_ids[p])>>

\* the task of a failed job has returned and run has logged its trace
C15_Witness ==
    \E p \in Positions : Status(p) = "failed" /\ tasks[p].pc = "done" /\ Logged(p)

-----------------------------------------------------------------------------
(* C16 *)

SomeRaised == \E p \in Positions : tasks[p].pc = "raised"

\* the raised tasks belong to the chunk being computed, run is in that
\* dask.compute call or has aborted, no task of a later position has been
\* created, and the traces in the log are those of the earlier chunks only
AtFailedChunk ==
    \A p \in Positions :
        tasks[p].pc = "raised" =>
            /\ pc \in {"compute", "aborted"}
            /\ p \in Chunk
            /\ start = ChunkOf(p) * chunks_to_copy
            /\ \A q \in Positions : q > start + num_tasks => tasks[q].pc = "none"
            /\ Len(Traces) = start

\* C16: once a task has raised, run never goes past the dask.compute call of
\* that task's chunk (no task of a later chunk is created, no trace of the chunk
\* is logged), and run aborts: the exception leaves dask.compute and run.
C16_AbortAtFailedChunk ==
    /\ []AtFailedChunk
    /\ SomeRaised ~> (pc = "aborted")

\* run has aborted in a chunk that is not the last: a task of the chunk raised,
\* another returned its trace, which is not in the log, and the jobs after the
\* chunk have no task
C16_Witness ==
    /\ pc = "aborted"
    /\ \E p, q \in Chunk :
          /\ tasks[p].pc = "raised"
          /\ tasks[q].pc = "done"
          /\ ~Logged(q)
    /\ \E q \in Positions : q > start + num_tasks /\ tasks[q].pc = "none"

-----------------------------------------------------------------------------
(* C17 *)

\* the key claimed for the copy of a job: the directory of the first file's
\* centre, then the first file's name
FirstFileKey ==
    [id \in Succeeded |->
        point_to_prefix(TargetDir, Jobs[id].files[1].lat, Jobs[id].files[1].lon)
            \o <<"/", Jobs[id].files[1].filename>>]

\* the objects that are first files of jobs
FirstFiles == {Jobs[id].files[1].key : id \in Succeeded}

\* the collaborator calls of a task that touch a granule, in the order of
\* copy_granule
CallOrder == <<"open", "exists", "copy">>

\* C17: a task opens at most one file, checks at most one key and issues at
\* most one copy, in that order; it copies only when its job succeeded and its
\* object_exists call returned False; the copy is from the bucket and key of the
\* job's first file to the key built from the first file's centre and filename;
\* no object of the target bucket comes from a later file of a job.
C17_OneCopyOfFirstFile ==
    /\ \A p \in Positions :
          LET t == tasks[p]
              first == Jobs[job_ids[p]].files[1]
          IN  /\ Len(t.ops) <= Len(CallOrder)
              /\ \A i \in 1..Len(t.ops) : t.ops[i] = CallOrder[i]
              /\ "copy" \in OpsOf(p) =>
                    /\ Status(p) = "succeeded"
                    /\ t.load \in {"404", "client_error"}
              /\ Copied(p) =>
                    /\ t.ops = CallOrder
                    /\ t.msgs[Len(t.msgs)] =
                          Msg("copying", job_ids[p], NoPoint, <<first.bucket, first.key>>,
                              FirstFileKey[job_ids[p]])
                    /\ store[FirstFileKey[job_ids[p]]] \in FirstFiles
    /\ \A k \in Keys : store[k] \in {Absent, OldContent} \union FirstFiles

\* the task of a job with more than one output file has copied: the object at
\* the target key is the job's first file
C17_Witness ==
    \E p \in Positions :
        /\ Status(p) = "succeeded"
        /\ Len(Jobs[job_ids[p]].files) > 1
        /\ Copied(p)
        /\ store[TargetKey(job_ids[p])] = Jobs[job_ids[p]].files[1].key

-----------------------------------------------------------------------------
(* C18 *)

\* the kinds of the outcome entries of a trace
OutcomeKinds == {"running", "copying", "exists", "failed"}

\* the positions in the trace of the task at p that hold an outcome entry
Outcomes(p) == {i \in 1..Len(tasks[p].msgs) : tasks[p].msgs[i].kind \in OutcomeKinds}

\* C18: the trace a task returns begins with the "Processing <job>" entry and
\* holds exactly one outcome entry, its last: "still running" exactly for a
\* running job, "failed" exactly for a job neither running nor succeeded,
\* "Copying" or "already exists" exactly for a succeeded job.
C18_OneOutcomePerTrace ==
    \A p \in Positions :
        tasks[p].pc = "done" =>
            LET msgs == tasks[p].msgs
                out == msgs[Len(msgs)].kind
            IN  /\ Len(msgs) >= 2
                /\ msgs[1] = Processing(job_ids[p])
                /\ Outcomes(p) = {Len(msgs)}
                /\ out = "running" <=> Status(p) = "running"
                /\ out = "failed" <=> Status(p) \notin {"running", "succeeded"}
                /\ out \in {"copying", "exists"} <=> Status(p) = "succeeded"

\* run has returned and logged the trace of a failed job, of a granule it
\* copied and of a granule it skipped
C18_Witness ==
    /\ pc = "done"
    /\ \E p, q, r \in Positions :
          /\ Copied(p) /\ Logged(p)
          /\ Skipped(q) /\ Logged(q)
          /\ Status(r) = "failed" /\ tasks[r].pc = "done" /\ Logged(r)

-----------------------------------------------------------------------------
(* C19 *)

\* C19: in every step, a key that holds an object still holds one; the bucket
\* changes only in the step in which a task completes its copy, and only at
\* that task's target key; the step in which a task returns "still running",
\* "failed" or "already exists" leaves the bucket as it is.  The jobs and the
\* source objects are not part of the state: the code only reads them.
C19_StoreOnlyGrows ==
    [][ /\ \A k \in Keys : store[k] # Absent => store'[k] # Absent
        /\ store' # store =>
              \E p \in Positions :
                 /\ tasks[p].pc = "copy"
                 /\ tasks'[p].pc = "done"
                 /\ tasks'[p].msgs[Len(tasks'[p].msgs)].kind = "copying"
                 /\ \A k \in Keys \ {TargetKey(job_ids[p])} : store'[k] = store[k]
        /\ \A p \in Positions :
              ( /\ tasks[p].pc # "done"
                /\ tasks'[p].pc = "done"
                /\ tasks'[p].msgs[Len(tasks'[p].msgs)].kind \in {"running", "failed", "exists"} )
                 => store' = store
      ]_vars

\* a task has copied a granule next to the object of an earlier run, which is
\* still there, and another task has skipped
C19_Witness ==
    /\ store0[TargetKey("jc")] = OldContent
    /\ store[TargetKey("jc")] = OldContent
    /\ \E p, q \in Positions :
          /\ Copied(p)
          /\ store[TargetKey(job_ids[p])] = Source(job_ids[p]).Key
          /\ Skipped(q)

-----------------------------------------------------------------------------
(* C20 *)

\* run has returned, or the exception of a task has ended it
Terminated == pc = "done" \/ (pc = "aborted" /\ SomeRaised)

\* the window of run: what is behind start and what is left to copy make up the
\* list; dask.compute is entered only with jobs left, and run returns only with
\* none left; for the empty list run never enters the loop body
LoopInvariant ==
    /\ num_to_copy >= 0
    /\ start + num_to_copy = Len(job_ids)
    /\ pc \in {"compute", "aborted"} => start < Len(job_ids)
    /\ pc = "done" => start = Len(job_ids)
    /\ Len(job_ids) = 0 => (pc \in {"loop", "done"} /\ Starts = <<>> /\ Traces = <<>>)

\* an iteration of the loop strictly decreases num_to_copy; the loop is left
\* exactly when start has reached the length of the list
LoopStep ==
    /\ (pc = "compute" /\ pc' = "loop") => num_to_copy' < num_to_copy
    /\ num_to_copy' <= num_to_copy
    /\ (pc = "loop" /\ pc' = "done") => start = Len(job_ids)
    /\ (pc = "loop" /\ pc' = "compute") => start < Len(job_ids)

\* C20: under fair scheduling, with every collaborator call returning or
\* raising, run terminates for every list and chunk size of the model: it
\* returns, or the exception of a task ends it.  Every iteration strictly
\* decreases num_to_copy, start + num_to_copy is the length of the list at
\* every point, the loop is left exactly when start equals that length, and the
\* empty list creates no task.
C20_RunTerminates ==
    /\ []LoopInvariant
    /\ [][LoopStep]_vars
    /\ <>Terminated
    /\ <>(SomeRaised \/ pc = "done")

\* run has returned after more than one iteration, the last chunk shorter than
\* the others
C20_Witness ==
    /\ pc = "done"
    /\ start = Len(job_ids)
    /\ num_to_copy = 0
    /\ Len(Starts) >= 2
    /\ Len(job_ids) % chunks_to_copy # 0
    /\ \A p \in Positions : tasks[p].pc = "done"

====
